---- MODULE Spec2Model ----
(***************************************************************************)
(* A model of the dbqueue execution engine: the Job / JobResult rows of    *)
(* dbqueue/models.py, the claim loop of dbqueue/runner/jobs.py, the        *)
(* wake-up sources (runner/wakeup.py, runner/postgres_notifications.py)    *)
(* and the supervisor of management/commands/run_queue.py.                 *)
(*                                                                         *)
(* Time is an integer clock `now`.  A transaction is modelled by its       *)
(* commit: a worker that has claimed a row holds the row lock while its pc *)
(* is "execute", and all the writes of Job.execute become visible in the   *)
(* single step that ends the transaction.                                  *)
(*                                                                         *)
(* The shared threading.Event is modelled with its waiters: wait() on a    *)
(* set event returns at once, wait() on a clear event blocks, and set()    *)
(* releases the threads blocked at that moment.                            *)
(*                                                                         *)
(* Spec is the engine at work under a supervisor that has started          *)
(* NumWorkers runners and the periodic waker; SystemSpec is the whole      *)
(* command, from its configuration checks to its return, notification      *)
(* thread included.                                                        *)
(*                                                                         *)
(* The claim query of runner/jobs.py reads two Job columns, final_result   *)
(* and canceled, that models.py does not declare.  final_result is read    *)
(* here as the JobResult row of the job whose `permanent` flag is set      *)
(* (what Job.get_result reads); canceled is a column written only by an    *)
(* administrator.                                                          *)
(***************************************************************************)
EXTENDS Integers, Sequences, FiniteSets, TLC

\* ------------------------------------------------------------------ bounds
NumWorkers == 2
NumJobs == 2
MaxTime == 2
MaxRetries == 2
MaxDelay == 1
\* rows inserted with fields other than the defaults
MaxCustomJobs == 1
\* positional arguments of an enqueued call
MaxArgs == 2

\* --------------------------------------------------------- program constants
\* models.py:96,99  null=True: the absent timestamp / absent reference
NULL == -1
\* models.py:105  base_retry_delay default, in seconds
base_retry_delay == 1
\* models.py:110  retry_multiplier default
retry_multiplier == 2
\* models.py:93  priority default
DefaultPriority == 1000

Workers == 1..NumWorkers

\* The function paths a Job row may carry, by what path_to_function does
\* with them:
\*   "app.tasks.handler"  importable and callable; a call returns or raises
\*   "does.not.exist"     import_module raises ModuleNotFoundError
\*   "os.path"            resolves to a module: not callable, has __name__
\*   "os.sep"             resolves to a str: not callable, has no __name__
FuncNames == {"app.tasks.handler", "does.not.exist", "os.path", "os.sep"}

\* A Python object as the model sees it: its type, and its __module__ and
\* __name__ ("" when the object has none).
PyObject(type, module, name) == [type |-> type, module |-> module, name |-> name]

\* A handler of the application: a module-level function.
app_tasks_handler == PyObject("function", "app.tasks", "handler")
\* test_callables.py:14-18  the handler that returns its inputs
test_func == PyObject("function", "dbqueue.test_callables", "test_func")
\* os.path is a module object (its __name__ is "posixpath"), os.sep a str
os_path == PyObject("module", "", "posixpath")
os_sep == PyObject("str", "", "")
\* no object: what an expression that raised has for a value
NoObject == PyObject("none", "", "")

\* The importable modules with their attributes: <<module, attribute>> to
\* the object.
ModuleAttrs ==
    (<<"app.tasks", "handler">> :> app_tasks_handler)
    @@ (<<"dbqueue.test_callables", "test_func">> :> test_func)
    @@ (<<"os", "path">> :> os_path)
    @@ (<<"os", "sep">> :> os_sep)

\* importlib.import_module succeeds for these names
Modules == {x[1] : x \in DOMAIN ModuleAttrs}

\* Dotted module names and dot-free identifiers, for splitting a path.
ModuleNames == Modules \cup {"does.not"}
Identifiers == {x[2] : x \in DOMAIN ModuleAttrs} \cup {"exist"}

\* The objects a caller may hand to simple_enqueue_job.
Objects == {app_tasks_handler, os_path, os_sep}

\* A priority that sorts before the default, and the default.
Priorities == {10, DefaultPriority}

VARIABLES
    now,         \* timezone.now()
    jobs,        \* the Job table: a sequence of rows, id = index
    results,     \* the JobResult table, in commit order
    run_event,   \* threading.Event shared by the runners
    exit_event,  \* threading.Event the supervisor blocks on
    pc,          \* per runner: its position in JobRunner.run
    exiting,     \* per runner: JobRunner.exiting
    idle,        \* per runner: JobRunner.idle
    cur,         \* per runner: the Job claimed in the open transaction, or 0
    started,     \* per runner: started_at of the pending JobResult
    lis_pc,      \* NotificationThread: its position in run
    lis_exiting, \* NotificationThread.exiting
    sup          \* Command.handle: its arguments and its position

vars ==
    <<now, jobs, results, run_event, exit_event, pc, exiting, idle, cur,
      started, lis_pc, lis_exiting, sup>>

workerVars == <<pc, exiting, idle, cur, started>>
storeVars == <<jobs, results>>
listenerVars == <<lis_pc, lis_exiting>>

JobIds == 1..Len(jobs)

\* ------------------------------------------------------------ the store

\* Job.results.count()
ResultsOf(j) == {i \in 1..Len(results) : results[i].job = j}

results_count(j) == Cardinality(ResultsOf(j))

\* The rows of job j flagged permanent (models.py JobResult.permanent).
PermanentOf(j) == {i \in ResultsOf(j) : results[i].permanent}

\* Job.final_result: the permanent JobResult of the job, or NULL.
final_result(j) ==
    IF PermanentOf(j) = {} THEN NULL
    ELSE CHOOSE i \in PermanentOf(j) : \A k \in PermanentOf(j) : i <= k

\* select_for_update: the row is locked by an open transaction.
Locked(j) == \E w \in Workers : pc[w] = "execute" /\ cur[w] = j

\* The filter without "final_result is null".
Available_nofinal(j, t) ==
    /\ jobs[j].canceled = FALSE
    /\ (jobs[j].delay_until = NULL \/ jobs[j].delay_until <= t)
    /\ (jobs[j].error_delay_until = NULL \/ jobs[j].error_delay_until <= t)

\* The filter without "canceled = False".
Available_nocancel(j, t) ==
    /\ final_result(j) = NULL
    /\ (jobs[j].delay_until = NULL \/ jobs[j].delay_until <= t)
    /\ (jobs[j].error_delay_until = NULL \/ jobs[j].error_delay_until <= t)

\* The filter without the delay_until test.
Available_nodelay(j, t) ==
    /\ final_result(j) = NULL
    /\ jobs[j].canceled = FALSE
    /\ (jobs[j].error_delay_until = NULL \/ jobs[j].error_delay_until <= t)

\* runner/jobs.py:86-95  the filter of the claim query, at time t
Available(j, t) ==
    /\ final_result(j) = NULL
    /\ jobs[j].canceled = FALSE
    /\ (jobs[j].delay_until = NULL \/ jobs[j].delay_until <= t)
    /\ (jobs[j].error_delay_until = NULL \/ jobs[j].error_delay_until <= t)

\* ORDER BY ... ASC on a nullable timestamp: NULL sorts last (PostgreSQL).
TimeLess(a, b) == a # NULL /\ (b = NULL \/ a < b)

\* runner/jobs.py:99  order_by("priority", "delay_until", "error_delay_until")
OrderKey(j) ==
    <<jobs[j].priority, jobs[j].delay_until, jobs[j].error_delay_until>>

\* The order with the priority descending.
KeyLess_desc(a, b) ==
    \/ a[1] > b[1]
    \/ a[1] = b[1] /\ TimeLess(a[2], b[2])
    \/ a[1] = b[1] /\ a[2] = b[2] /\ TimeLess(a[3], b[3])

KeyLess(a, b) ==
    \/ a[1] < b[1]
    \/ a[1] = b[1] /\ TimeLess(a[2], b[2])
    \/ a[1] = b[1] /\ a[2] = b[2] /\ TimeLess(a[3], b[3])

\* The claim query without skip_locked: locked rows are returned too.
get_job_nolock ==
    LET rows == {j \in JobIds : Available(j, now)}
    IN {j \in rows : \A k \in rows : ~KeyLess(OrderKey(k), OrderKey(j))}

\* runner/jobs.py:83-102  the rows .first() may return: available, not
\* locked by another transaction, first in the order; rows with equal keys
\* come in any order.  The empty set is the query returning None.
get_job ==
    LET rows == {j \in JobIds : Available(j, now) /\ ~Locked(j)}
    IN {j \in rows : \A k \in rows : ~KeyLess(OrderKey(k), OrderKey(j))}

\* models.py:261-263  callable(f)
callable(f) == f.type = "function"

\* The path made of the name alone.
function_to_path_name(func) == func.name

\* models.py:236-242  function_to_path of a callable: module, dot, name
function_to_path(func) == func.module \o "." \o func.name

\* models.py:249-251  path.split("."): everything before the last dot, and
\* what follows it; a path without a dot has an empty module name
rsplit(path) ==
    LET cuts == {x \in ModuleNames \X Identifiers :
                    x[1] \o "." \o x[2] = path}
    IN IF cuts = {} THEN <<"", path>> ELSE CHOOSE x \in cuts : TRUE

\* models.py:244-258  path_to_function: the function, or the exception that
\* leaves it (with the object found, for Uncallable)
path_to_function(path) ==
    LET parts == rsplit(path)
    IN IF parts[1] = "" THEN [raised |-> "ValueError", value |-> NoObject]
       ELSE IF parts[1] \notin Modules
       THEN [raised |-> "ModuleNotFoundError", value |-> NoObject]
       ELSE IF parts \notin DOMAIN ModuleAttrs
       THEN [raised |-> "AttributeError", value |-> NoObject]
       ELSE IF ~callable(ModuleAttrs[parts])
       THEN [raised |-> "Uncallable", value |-> ModuleAttrs[parts]]
       ELSE [raised |-> "None", value |-> ModuleAttrs[parts]]

\* models.py:29-30  Uncallable.__str__ reads arg.__name__: the message, or
\* "AttributeError" when the object has no __name__ and str(exc) raises
Uncallable_str(path) ==
    LET arg == path_to_function(path).value
    IN IF arg.type \in {"function", "module"}
       THEN "Object of type '" \o arg.name \o "'' is not callable"
       ELSE "AttributeError"

\* ------------------------------------------------------- argument values

\* The values of arguments and results: the int 1, the str "1", None, and
\* tuples, lists and dicts of values.  An int or str carries its text.
JsonNull == [t |-> "null", v |-> "null"]
JsonScalars == {[t |-> "int", v |-> "1"], [t |-> "str", v |-> "1"], JsonNull}

\* json.dumps / json.loads of a scalar: a str is quoted, the others are not
dumps(x) == IF x.t = "str" THEN "\"" \o x.v \o "\"" ELSE x.v
loads(text) == CHOOSE x \in JsonScalars : dumps(x) = text

\* models.py:274, 288, 303  JSONField: the value is stored as JSON text and
\* read back; a tuple comes back as a list
RECURSIVE JSONField(_)
JSONField(x) ==
    CASE x.t \in {"tuple", "list"} ->
            [t |-> "list", v |-> [i \in DOMAIN x.v |-> JSONField(x.v[i])]]
      [] x.t = "dict" ->
            [t |-> "dict", v |-> [k \in DOMAIN x.v |-> JSONField(x.v[k])]]
      [] OTHER -> loads(dumps(x))

\* The args in the opposite order.
get_args_desc(j) ==
    LET rows == jobs[j].args
    IN [i \in 1..Cardinality(rows) |->
          (CHOOSE r \in rows :
              Cardinality({q \in rows : q.position > r.position}) = i - 1).arg]

\* models.py:130-140  get_args: the JobArg rows ordered by position
get_args(j) ==
    LET rows == jobs[j].args
    IN [i \in 1..Cardinality(rows) |->
          (CHOOSE r \in rows :
              Cardinality({q \in rows : q.position < r.position}) = i - 1).arg]

\* models.py:142-152  get_kwargs: param_name to arg
get_kwargs(j) ==
    LET rows == jobs[j].kwargs
    IN [k \in {r.param_name : r \in rows} |->
          (CHOOSE r \in rows : r.param_name = k).arg]

\* models.py:116-119  get_callable
get_callable(j) == path_to_function(jobs[j].func_name)

\* models.py:121-128, 185  the value partial() returns: test_func returns its
\* inputs (test_callables.py:18); the application's handler returns None
Call(func, args, kwargs) ==
    IF func = test_func
    THEN [t |-> "dict",
          v |-> ("args" :> [t |-> "list", v |-> args])
                @@ ("kwargs" :> [t |-> "dict", v |-> kwargs])]
    ELSE JsonNull

\* models.py:157-159, 190, 294-304  a JobResult row of the attempt worker w
\* has open; result holds the handler's value on success and stays None
\* otherwise
NewResult(j, w, success, permanent, exception) ==
    [job |-> j, success |-> success, permanent |-> permanent,
     started_at |-> started[w], finished_at |-> now, exception |-> exception,
     result |-> IF success
                THEN JSONField(Call(get_callable(j).value, get_args(j),
                                    get_kwargs(j)))
                ELSE JsonNull]

\* The row read is the Job's last one, whatever its permanent flag.
get_result_last(j) ==
    IF ResultsOf(j) = {}
    THEN [raised |-> "Unfinished", msg |-> "", value |-> JsonNull]
    ELSE LET r == results[CHOOSE i \in ResultsOf(j) :
                             \A k \in ResultsOf(j) : k <= i]
         IN IF ~r.success
            THEN [raised |-> "PermanentFailure", msg |-> r.exception,
                  value |-> JsonNull]
            ELSE [raised |-> "None", msg |-> "", value |-> r.result]

\* models.py:220-234  get_result: the value returned, or the exception
\* raised with its message; results.get raises MultipleObjectsReturned when
\* more than one row is permanent
get_result(j) ==
    IF PermanentOf(j) = {}
    THEN [raised |-> "Unfinished", msg |-> "", value |-> JsonNull]
    ELSE IF Cardinality(PermanentOf(j)) > 1
    THEN [raised |-> "MultipleObjectsReturned", msg |-> "", value |-> JsonNull]
    ELSE LET r == results[CHOOSE i \in PermanentOf(j) : TRUE]
         IN IF ~r.success
            THEN [raised |-> "PermanentFailure", msg |-> r.exception,
                  value |-> JsonNull]
            ELSE [raised |-> "None", msg |-> "", value |-> r.result]

\* models.py:167-171  the row written when the path resolves to a non-callable
UncallableResult(j, w) ==
    NewResult(j, w, FALSE, TRUE, Uncallable_str(jobs[j].func_name))

\* The successful row without the permanent flag.
SuccessResult_notpermanent(j, w) == NewResult(j, w, TRUE, FALSE, "")

\* models.py:187-190  the row written when the handler returns
SuccessResult(j, w) == NewResult(j, w, TRUE, TRUE, "")

\* The test with > for >=.
RetriesExhausted_gt(total_try_count, max_retries) ==
    total_try_count > max_retries

\* models.py:213  "if total_try_count >= self.max_retries"
RetriesExhausted(total_try_count, max_retries) ==
    total_try_count >= max_retries

\* models.py:201-204  error_delay_until after a handler exception
ErrorDelayUntil(total_try_count) ==
    now + base_retry_delay * retry_multiplier * total_try_count

\* The failing row with the attempts counted after the row is written.
FailureResult_postcount(j, w) ==
    NewResult(j, w, FALSE,
              RetriesExhausted(results_count(j) + 1, jobs[j].max_retries),
              "boom")

\* models.py:206-214  the row written when the handler raises
FailureResult(j, w) ==
    NewResult(j, w, FALSE,
              RetriesExhausted(results_count(j), jobs[j].max_retries), "boom")

\* ------------------------------------------------------------- initial state

\* run_queue.py:53-143  Command.handle blocked on exit_event.wait() with its
\* arguments and the database engine's answer (execute_async); wakeup is
\* whether the periodic waker runs (run_queue.py:123-125)
HandleWaiting(job_runners, rescan_period, execute_async) ==
    [pc |-> "wait", i |-> 0, half |-> FALSE, job_runners |-> job_runners,
     rescan_period |-> rescan_period, execute_async |-> execute_async,
     wakeup |-> rescan_period # 0]

\* The state in which handle reaches run_queue.py:143 with NumWorkers
\* runners and a rescan period on an engine that is not one of
\* NOTIFY_ENGINES: the waker and every runner are started, there is no
\* notification thread, and no thread has run yet.
Init ==
    /\ now = 0
    /\ jobs = <<>>
    /\ results = <<>>
    /\ run_event = TRUE
    /\ exit_event = FALSE
    /\ pc = [w \in Workers |-> "loop"]
    /\ exiting = [w \in Workers |-> FALSE]
    /\ idle = [w \in Workers |-> FALSE]
    /\ cur = [w \in Workers |-> 0]
    /\ started = [w \in Workers |-> 0]
    /\ lis_pc = "unstarted"
    /\ lis_exiting = FALSE
    /\ sup = HandleWaiting(NumWorkers, 1, FALSE)

\* ------------------------------------------------------------ producers

\* models.py:83-112  a Job row with the given fields, the others at their
\* defaults
JobRow(func, priority, delay, retries) ==
    [func_name |-> func, priority |-> priority, delay_until |-> delay,
     error_delay_until |-> NULL, max_retries |-> retries,
     finished |-> FALSE, canceled |-> FALSE, args |-> {}, kwargs |-> {}]

\* models.py:56-62  the row simple_enqueue_job inserts: every default
DefaultRow(func) == JobRow(func, DefaultPriority, NULL, 0)

IsDefaultRow(row) ==
    /\ row.priority = DefaultPriority
    /\ row.delay_until = NULL
    /\ row.max_retries = 0
    /\ path_to_function(row.func_name).raised = "None"

\* models.py:57-78  the rows simple_enqueue_job writes: the Job with the
\* path of func and every default, a JobArg per positional argument with its
\* index (enumerate), a JobKWArg per keyword
EnqueuedRow(func, args, kwargs) ==
    [DefaultRow(function_to_path(func)) EXCEPT
        !.args = {[position |-> i - 1, arg |-> JSONField(args[i])] :
                    i \in DOMAIN args},
        !.kwargs = {[param_name |-> k, arg |-> JSONField(kwargs[k])] :
                      k \in DOMAIN kwargs}]

\* models.py:52-80  JobManager.simple_enqueue_job(func, *args, **kwargs):
\* func is callable (line 56; Uncallable otherwise, and nothing is written);
\* the Job row with the path of func, a JobArg row per positional argument
\* with its index, and a JobKWArg row per keyword are inserted in one
\* transaction
simple_enqueue_job(func, args, kwargs) ==
    /\ callable(func)
    /\ Len(jobs) < NumJobs
    /\ jobs' = Append(jobs, EnqueuedRow(func, args, kwargs))
    /\ UNCHANGED <<now, results, run_event, exit_event, workerVars,
                   listenerVars, sup>>

\* models.py:83-114  a Job row is inserted with fields of the writer's
\* choice (Job(...).save())
CreateJob(func, priority, delay, retries) ==
    /\ Len(jobs) < NumJobs
    /\ ~IsDefaultRow(JobRow(func, priority, delay, retries))
    /\ Cardinality({j \in JobIds : ~IsDefaultRow(jobs[j])}) < MaxCustomJobs
    /\ jobs' = Append(jobs, JobRow(func, priority, delay, retries))
    /\ UNCHANGED <<now, results, run_event, exit_event, workerVars,
                   listenerVars, sup>>

\* An administrator sets canceled on a row no transaction holds.
Cancel(j) ==
    /\ ~jobs[j].canceled
    /\ ~Locked(j)
    /\ jobs' = [jobs EXCEPT ![j].canceled = TRUE]
    /\ UNCHANGED <<now, results, run_event, exit_event, workerVars,
                   listenerVars, sup>>

\* The clock advances.
Tick ==
    /\ now < MaxTime
    /\ now' = now + 1
    /\ UNCHANGED <<storeVars, run_event, exit_event, workerVars,
                   listenerVars, sup>>

\* ------------------------------------------------------- JobRunner.run

\* runner/jobs.py:27, 68-74  the outer loop test on entry; leaving the loop
\* ends the thread.
RunLoop(w) ==
    /\ pc[w] = "loop"
    /\ pc' = [pc EXCEPT ![w] = IF exiting[w] THEN "done" ELSE "wait"]
    /\ UNCHANGED <<now, storeVars, run_event, exit_event, exiting, idle, cur,
                   started, listenerVars, sup>>

\* runner/jobs.py:29-32  run_event.wait() finds the flag set and returns at
\* once; idle.clear()
RunWait(w) ==
    /\ pc[w] = "wait"
    /\ run_event
    /\ idle' = [idle EXCEPT ![w] = FALSE]
    /\ pc' = [pc EXCEPT ![w] = "drain"]
    /\ UNCHANGED <<now, storeVars, run_event, exit_event, exiting, cur,
                   started, listenerVars, sup>>

\* runner/jobs.py:29  run_event.wait() finds the flag clear: the thread
\* blocks on the event's condition until a set() notifies it
RunBlock(w) ==
    /\ pc[w] = "wait"
    /\ ~run_event
    /\ pc' = [pc EXCEPT ![w] = "blocked"]
    /\ UNCHANGED <<now, storeVars, run_event, exit_event, exiting, idle, cur,
                   started, listenerVars, sup>>

\* runner/jobs.py:29-32  a notified wait() returns, whatever the flag is by
\* then; idle.clear()
RunWoken(w) ==
    /\ pc[w] = "woken"
    /\ idle' = [idle EXCEPT ![w] = FALSE]
    /\ pc' = [pc EXCEPT ![w] = "drain"]
    /\ UNCHANGED <<now, storeVars, run_event, exit_event, exiting, cur,
                   started, listenerVars, sup>>

\* runner/jobs.py:34  the inner loop test fails: exiting
RunDrainExit(w) ==
    /\ pc[w] = "drain"
    /\ exiting[w]
    /\ pc' = [pc EXCEPT ![w] = "cool"]
    /\ UNCHANGED <<now, storeVars, run_event, exit_event, exiting, idle, cur,
                   started, listenerVars, sup>>

\* runner/jobs.py:41-46, models.py:157-159  the transaction opens, _get_job
\* returns a row (now locked) and Job.execute stamps started_at
RunClaim(w) ==
    /\ pc[w] = "drain"
    /\ ~exiting[w]
    /\ \E j \in get_job :
        /\ cur' = [cur EXCEPT ![w] = j]
        /\ started' = [started EXCEPT ![w] = now]
    /\ pc' = [pc EXCEPT ![w] = "execute"]
    /\ UNCHANGED <<now, storeVars, run_event, exit_event, exiting, idle,
                   listenerVars, sup>>

\* The runner breaks out of the inner loop whatever the query returns.
RunNoJob_always(w) ==
    /\ pc[w] = "drain"
    /\ ~exiting[w]
    /\ pc' = [pc EXCEPT ![w] = "cool"]
    /\ UNCHANGED <<now, storeVars, run_event, exit_event, exiting, idle, cur,
                   started, listenerVars, sup>>

\* runner/jobs.py:47-52  _get_job returns None: break
RunNoJob(w) ==
    /\ pc[w] = "drain"
    /\ ~exiting[w]
    /\ get_job = {}
    /\ pc' = [pc EXCEPT ![w] = "cool"]
    /\ UNCHANGED <<now, storeVars, run_event, exit_event, exiting, idle, cur,
                   started, listenerVars, sup>>

\* The attempt aborts as in ExecuteCrash, but the row of the attempt has
\* been committed before the exception leaves.
ExecuteCrash_commit(w) ==
    /\ pc[w] = "execute"
    /\ LET f == jobs[cur[w]].func_name
       IN \/ path_to_function(f).raised \in
                {"ValueError", "ModuleNotFoundError", "AttributeError"}
          \/ /\ path_to_function(f).raised = "Uncallable"
             /\ Uncallable_str(f) = "AttributeError"
    /\ results' = Append(results, NewResult(cur[w], w, FALSE, FALSE, "crash"))
    /\ pc' = [pc EXCEPT ![w] = "crashed"]
    /\ cur' = [cur EXCEPT ![w] = 0]
    /\ started' = [started EXCEPT ![w] = 0]
    /\ UNCHANGED <<now, jobs, run_event, exit_event, exiting, idle,
                   listenerVars, sup>>

\* models.py:161-162, 244-258; runner/jobs.py:41-46  get_partial raises
\* something other than Uncallable (the module or attribute does not
\* exist), or str(exc) raises inside the Uncallable handler before anything
\* is saved: the exception leaves execute, transaction.atomic rolls back and
\* releases the row, and it leaves run(): the thread ends.
ExecuteCrash(w) ==
    /\ pc[w] = "execute"
    /\ LET f == jobs[cur[w]].func_name
       IN \/ path_to_function(f).raised \in
                {"ValueError", "ModuleNotFoundError", "AttributeError"}
          \/ /\ path_to_function(f).raised = "Uncallable"
             /\ Uncallable_str(f) = "AttributeError"
    /\ pc' = [pc EXCEPT ![w] = "crashed"]
    /\ cur' = [cur EXCEPT ![w] = 0]
    /\ started' = [started EXCEPT ![w] = 0]
    /\ UNCHANGED <<now, storeVars, run_event, exit_event, exiting, idle,
                   listenerVars, sup>>

\* models.py:163-181  Uncallable: finished is set, the permanent failing row
\* is saved, the transaction commits
ExecuteUncallable(w) ==
    /\ pc[w] = "execute"
    /\ LET j == cur[w]
       IN /\ get_callable(j).raised = "Uncallable"
          /\ Uncallable_str(jobs[j].func_name) # "AttributeError"
          /\ jobs' = [jobs EXCEPT ![j].finished = TRUE]
          /\ results' = Append(results, UncallableResult(j, w))
    /\ pc' = [pc EXCEPT ![w] = "drain"]
    /\ cur' = [cur EXCEPT ![w] = 0]
    /\ started' = [started EXCEPT ![w] = 0]
    /\ UNCHANGED <<now, run_event, exit_event, exiting, idle,
                   listenerVars, sup>>

\* The handler returns and the runner leaves the inner loop after this one
\* job instead of claiming the next.
ExecuteSuccess_break(w) ==
    /\ pc[w] = "execute"
    /\ LET j == cur[w]
       IN /\ get_callable(j).raised = "None"
          /\ results' = Append(results, SuccessResult(j, w))
          /\ jobs' = [jobs EXCEPT ![j].finished = TRUE]
    /\ pc' = [pc EXCEPT ![w] = "cool"]
    /\ cur' = [cur EXCEPT ![w] = 0]
    /\ started' = [started EXCEPT ![w] = 0]
    /\ UNCHANGED <<now, run_event, exit_event, exiting, idle,
                   listenerVars, sup>>

\* models.py:184-194  the handler returns
ExecuteSuccess(w) ==
    /\ pc[w] = "execute"
    /\ LET j == cur[w]
       IN /\ get_callable(j).raised = "None"
          /\ results' = Append(results, SuccessResult(j, w))
          /\ jobs' = [jobs EXCEPT ![j].finished = TRUE]
    /\ pc' = [pc EXCEPT ![w] = "drain"]
    /\ cur' = [cur EXCEPT ![w] = 0]
    /\ started' = [started EXCEPT ![w] = 0]
    /\ UNCHANGED <<now, run_event, exit_event, exiting, idle,
                   listenerVars, sup>>

\* models.py:196-218  the handler raises
ExecuteFailure(w) ==
    /\ pc[w] = "execute"
    /\ LET j == cur[w]
       IN /\ get_callable(j).raised = "None"
          /\ jobs' = [jobs EXCEPT
                        ![j].error_delay_until =
                            ErrorDelayUntil(results_count(j))]
          /\ results' = Append(results, FailureResult(j, w))
    /\ pc' = [pc EXCEPT ![w] = "drain"]
    /\ cur' = [cur EXCEPT ![w] = 0]
    /\ started' = [started EXCEPT ![w] = 0]
    /\ UNCHANGED <<now, run_event, exit_event, exiting, idle,
                   listenerVars, sup>>

\* runner/jobs.py:36-42  the store is unavailable when the transaction is
\* opened or when _get_job runs its query: the database exception is caught
\* nowhere in run(), so it ends the thread; nothing was locked or written
RunClaimError(w) ==
    /\ pc[w] = "drain"
    /\ ~exiting[w]
    /\ pc' = [pc EXCEPT ![w] = "crashed"]
    /\ UNCHANGED <<now, storeVars, run_event, exit_event, exiting, idle, cur,
                   started, listenerVars, sup>>

\* models.py:175-177, 190-194, 198, 216-218; runner/jobs.py:41-46  the store
\* becomes unavailable while Job.execute writes (or when the block commits):
\* a save inside the try is caught by "except Exception" only for the count
\* and the saves of that branch to raise in turn, so the exception leaves
\* execute, transaction.atomic rolls back and releases the row, and the
\* exception ends the thread
ExecuteSaveError(w) ==
    /\ pc[w] = "execute"
    /\ pc' = [pc EXCEPT ![w] = "crashed"]
    /\ cur' = [cur EXCEPT ![w] = 0]
    /\ started' = [started EXCEPT ![w] = 0]
    /\ UNCHANGED <<now, storeVars, run_event, exit_event, exiting, idle,
                   listenerVars, sup>>

\* runner/jobs.py:54  "if not self.exiting"
RunCool(w) ==
    /\ pc[w] = "cool"
    /\ pc' = [pc EXCEPT ![w] = IF exiting[w] THEN "set_idle" ELSE "clear"]
    /\ UNCHANGED <<now, storeVars, run_event, exit_event, exiting, idle, cur,
                   started, listenerVars, sup>>

\* runner/jobs.py:57  run_event.clear()
RunClearEvent(w) ==
    /\ pc[w] = "clear"
    /\ run_event' = FALSE
    /\ pc' = [pc EXCEPT ![w] = "set_idle"]
    /\ UNCHANGED <<now, storeVars, exit_event, exiting, idle, cur, started,
                   listenerVars, sup>>

\* runner/jobs.py:66, 27  idle.set(), then the outer loop test
RunSetIdle(w) ==
    /\ pc[w] = "set_idle"
    /\ idle' = [idle EXCEPT ![w] = TRUE]
    /\ pc' = [pc EXCEPT ![w] = IF exiting[w] THEN "done" ELSE "wait"]
    /\ UNCHANGED <<now, storeVars, run_event, exit_event, exiting, cur,
                   started, listenerVars, sup>>

\* ------------------------------------------------------ wake-up sources

\* runner/jobs.py:81, runner/wakeup.py:21, postgres_notifications.py:66
\* Event.set() notifies every thread blocked in wait() on the event
Notified(p) ==
    [w \in Workers |-> IF p[w] = "blocked" THEN "woken" ELSE p[w]]

\* runner/wakeup.py:18-21  the periodic waker sets the event (a set() of a
\* set event changes nothing)
Wakeup_run ==
    /\ sup.wakeup
    /\ ~run_event
    /\ run_event' = TRUE
    /\ pc' = Notified(pc)
    /\ UNCHANGED <<now, storeVars, exit_event, exiting, idle, cur, started,
                   listenerVars, sup>>

\* runner/postgres_notifications.py:43, 50  some client of the database
\* sends NOTIFY on the channel: the listener's connection becomes readable
Notify ==
    /\ lis_pc = "select"
    /\ lis_pc' = "readable"
    /\ UNCHANGED <<now, storeVars, run_event, exit_event, workerVars,
                   lis_exiting, sup>>

\* runner/postgres_notifications.py:50-67  select returns on the readable
\* connection; the notifications are dropped and, unless exiting, the event
\* is set
NotificationThread_notify ==
    /\ lis_pc = "readable"
    /\ lis_pc' = "select"
    /\ IF lis_exiting
       THEN UNCHANGED <<run_event, pc>>
       ELSE run_event' = TRUE /\ pc' = Notified(pc)
    /\ UNCHANGED <<now, storeVars, exit_event, exiting, idle, cur, started,
                   lis_exiting, sup>>

\* runner/postgres_notifications.py:47, 69-76  the loop ends once exiting
\* (stop() writes to the pipe, so select returns)
NotificationThread_exit ==
    /\ lis_pc = "select"
    /\ lis_exiting
    /\ lis_pc' = "done"
    /\ UNCHANGED <<now, storeVars, run_event, exit_event, workerVars,
                   lis_exiting, sup>>

\* runner/postgres_notifications.py:32, 47, 53  the server closes the
\* connection (or refuses it): the loop test fails, or connect / poll
\* raises, and the thread ends
NotificationThread_closed ==
    /\ lis_pc \in {"select", "readable"}
    /\ lis_pc' = "done"
    /\ UNCHANGED <<now, storeVars, run_event, exit_event, workerVars,
                   lis_exiting, sup>>

\* ----------------------------------------------------------- supervisor

\* run_queue.py:54-55  CommandError unless job_runners >= 1
HandleCheckRunners ==
    /\ sup.pc = "start"
    /\ sup' = [sup EXCEPT !.pc = IF sup.job_runners < 1 THEN "error"
                                                         ELSE "events"]
    /\ UNCHANGED <<now, storeVars, run_event, exit_event, workerVars,
                   listenerVars>>

\* The events are created and run_event is left clear.
HandleEvents_clear ==
    /\ sup.pc = "events"
    /\ run_event' = FALSE
    /\ exit_event' = FALSE
    /\ sup' = [sup EXCEPT !.pc = "check_notify"]
    /\ UNCHANGED <<now, storeVars, workerVars, listenerVars>>

\* run_queue.py:62-70  the two events are created, run_event is set, and
\* the SIGINT handler is installed
HandleEvents ==
    /\ sup.pc = "events"
    /\ run_event' = TRUE
    /\ exit_event' = FALSE
    /\ sup' = [sup EXCEPT !.pc = "check_notify"]
    /\ UNCHANGED <<now, storeVars, workerVars, listenerVars>>

\* The check with the test of the rescan period left out.
HandleCheckNotify_norescan ==
    /\ sup.pc = "check_notify"
    /\ sup' = [sup EXCEPT !.pc = "start_listener"]
    /\ UNCHANGED <<now, storeVars, run_event, exit_event, workerVars,
                   listenerVars>>

\* run_queue.py:72-82  CommandError when the engine has no notifications
\* and the rescan period is 0
HandleCheckNotify ==
    /\ sup.pc = "check_notify"
    /\ sup' = [sup EXCEPT !.pc =
                  IF ~sup.execute_async /\ sup.rescan_period = 0
                  THEN "error" ELSE "start_listener"]
    /\ UNCHANGED <<now, storeVars, run_event, exit_event, workerVars,
                   listenerVars>>

\* run_queue.py:97-121  with notifications the NotificationThread is
\* started (with its watcher) and registered to be stopped and joined
HandleStartListener ==
    /\ sup.pc = "start_listener"
    /\ lis_pc' = IF sup.execute_async THEN "select" ELSE lis_pc
    /\ sup' = [sup EXCEPT !.pc = "start_wakeup"]
    /\ UNCHANGED <<now, storeVars, run_event, exit_event, workerVars,
                   lis_exiting>>

\* run_queue.py:123-129  with a rescan period the waker is started
HandleStartWakeup ==
    /\ sup.pc = "start_wakeup"
    /\ sup' = [sup EXCEPT !.pc = "start_runners", !.i = 0,
                          !.wakeup = (sup.rescan_period # 0)]
    /\ UNCHANGED <<now, storeVars, run_event, exit_event, workerVars,
                   listenerVars>>

\* run_queue.py:132-143  the next JobRunner is started (with its watcher)
\* and its stop registered; after the last one handle blocks on exit_event
HandleStartRunner ==
    /\ sup.pc = "start_runners"
    /\ pc' = [pc EXCEPT ![sup.i + 1] = "loop"]
    /\ sup' = [sup EXCEPT !.i = sup.i + 1,
                          !.pc = IF sup.i + 1 < sup.job_runners
                                 THEN "start_runners" ELSE "wait"]
    /\ UNCHANGED <<now, storeVars, run_event, exit_event, exiting, idle, cur,
                   started, listenerVars>>

\* run_queue.py:66-70  SIGINT, once the handler is installed
perform_exit ==
    /\ sup.pc \notin {"start", "events", "error"}
    /\ ~exit_event
    /\ exit_event' = TRUE
    /\ UNCHANGED <<now, storeVars, run_event, workerVars, listenerVars, sup>>

\* Only the notification thread is watched.
WaitEvent_run_listener ==
    /\ ~exit_event
    /\ lis_pc = "done"
    /\ exit_event' = TRUE
    /\ UNCHANGED <<now, storeVars, run_event, workerVars, listenerVars, sup>>

\* thread_helpers.py:48-50, run_queue.py:114, 129, 139  WaitEvent: a watched
\* thread has ended (join returns) and exit_event is set.  The waker is
\* watched too, but Wakeup.run is "while True" and has no way to end.
WaitEvent_run ==
    /\ ~exit_event
    /\ \/ lis_pc = "done"
       \/ \E w \in Workers : pc[w] \in {"done", "crashed"}
    /\ exit_event' = TRUE
    /\ UNCHANGED <<now, storeVars, run_event, workerVars, listenerVars, sup>>

\* run_queue.py:143-149  exit_event.wait() returns; the first stop command
\* is the listener's (postgres_notifications.py:78-80)
HandleStopListener ==
    /\ sup.pc = "wait"
    /\ exit_event
    /\ lis_exiting' = sup.execute_async
    /\ sup' = [sup EXCEPT !.pc = "stop", !.i = 1, !.half = FALSE]
    /\ UNCHANGED <<now, storeVars, run_event, exit_event, workerVars, lis_pc>>

\* run_queue.py:147-149, runner/jobs.py:79  runner.stop(): exiting = True
HandleStopFlag ==
    /\ sup.pc = "stop"
    /\ ~sup.half
    /\ exiting' = [exiting EXCEPT ![sup.i] = TRUE]
    /\ sup' = [sup EXCEPT !.half = TRUE]
    /\ UNCHANGED <<now, storeVars, run_event, exit_event, pc, idle, cur,
                   started, listenerVars>>

\* runner/jobs.py:81  runner.stop(): run_event.set(); then the next stop
\* command, or the joins
HandleStopSet ==
    /\ sup.pc = "stop"
    /\ sup.half
    /\ run_event' = TRUE
    /\ pc' = Notified(pc)
    /\ sup' = IF sup.i < sup.job_runners
              THEN [sup EXCEPT !.i = sup.i + 1, !.half = FALSE]
              ELSE [sup EXCEPT !.pc = "join", !.i = 0, !.half = FALSE]
    /\ UNCHANGED <<now, storeVars, exit_event, exiting, idle, cur, started,
                   listenerVars>>

\* run_queue.py:95, 118, 153-156  waiting_threads holds the notification
\* thread, when there is one, and nothing else
HandleJoin ==
    /\ sup.pc = "join"
    /\ sup.execute_async => lis_pc = "done"
    /\ sup' = [sup EXCEPT !.pc = "returned"]
    /\ UNCHANGED <<now, storeVars, run_event, exit_event, workerVars,
                   listenerVars>>

\* ------------------------------------------------------------ next state

Delays == {NULL} \cup 1..MaxDelay

\* The rows writers insert: a callable path with every priority, delay and
\* retry count; a path that does not resolve with every retry count.
JobInputs ==
    {<<f, p, d, r>> : f \in {g \in FuncNames :
                                path_to_function(g).raised = "None"},
                      p \in Priorities, d \in Delays, r \in 0..MaxRetries}
    \cup {<<f, DefaultPriority, NULL, r>> : f \in FuncNames, r \in 0..MaxRetries}

Producer ==
    \/ \E f \in Objects : simple_enqueue_job(f, <<>>, <<>>)
    \/ \E x \in JobInputs : CreateJob(x[1], x[2], x[3], x[4])
    \/ \E j \in JobIds : Cancel(j)

Runner(w) ==
    \/ RunLoop(w)
    \/ RunWait(w)
    \/ RunBlock(w)
    \/ RunWoken(w)
    \/ RunClaim(w)
    \/ RunNoJob(w)
    \/ ExecuteCrash(w)
    \/ ExecuteUncallable(w)
    \/ ExecuteSuccess(w)
    \/ ExecuteFailure(w)
    \/ RunCool(w)
    \/ RunClearEvent(w)
    \/ RunSetIdle(w)

\* The writers of the store, the clock, and the threads the supervisor has
\* started, while it blocks on exit_event (run_queue.py:143).
Next ==
    \/ Producer
    \/ Tick
    \/ \E w \in Workers : Runner(w)
    \/ Wakeup_run

Spec == Init /\ [][Next]_vars

\* ------------------------------------------------- the whole command

\* The arguments of the command: --job-runners, --rescan-period, and whether
\* the engine is one of NOTIFY_ENGINES (run_queue.py:19-23, 41-53, 75-77).
HandleInputs ==
    [job_runners : 0..NumWorkers, rescan_period : {0, 1},
     execute_async : BOOLEAN]

\* run_queue.py:53  handle is entered: no event exists, no thread is started
SystemInit ==
    /\ now = 0
    /\ jobs = <<>>
    /\ results = <<>>
    /\ run_event = FALSE
    /\ exit_event = FALSE
    /\ pc = [w \in Workers |-> "unstarted"]
    /\ exiting = [w \in Workers |-> FALSE]
    /\ idle = [w \in Workers |-> FALSE]
    /\ cur = [w \in Workers |-> 0]
    /\ started = [w \in Workers |-> 0]
    /\ lis_pc = "unstarted"
    /\ lis_exiting = FALSE
    /\ \E a \in HandleInputs :
          sup = [pc |-> "start", i |-> 0, half |-> FALSE,
                 job_runners |-> a.job_runners,
                 rescan_period |-> a.rescan_period,
                 execute_async |-> a.execute_async, wakeup |-> FALSE]

\* The writers of the scenario: simple_enqueue_job with a handler, and a row
\* whose func_name does not name a callable.
SystemProducer ==
    \/ \E f \in Objects : simple_enqueue_job(f, <<>>, <<>>)
    \/ \E f \in FuncNames : CreateJob(f, DefaultPriority, NULL, 0)

SystemRunner(w) ==
    \/ Runner(w)
    \/ RunDrainExit(w)

NotificationThread_run ==
    \/ NotificationThread_notify
    \/ NotificationThread_exit

Startup ==
    \/ HandleCheckRunners
    \/ HandleEvents
    \/ HandleCheckNotify
    \/ HandleStartListener
    \/ HandleStartWakeup
    \/ HandleStartRunner

Shutdown ==
    \/ HandleStopListener
    \/ HandleStopFlag
    \/ HandleStopSet
    \/ HandleJoin

\* The command from its start to its return, with the writers of the store,
\* SIGINT, NOTIFY and a closing connection as its environment.
SystemNext ==
    \/ SystemProducer
    \/ Startup
    \/ \E w \in Workers : SystemRunner(w)
    \/ Wakeup_run
    \/ Notify
    \/ NotificationThread_closed
    \/ NotificationThread_run
    \/ perform_exit
    \/ WaitEvent_run
    \/ Shutdown

\* Every thread of the command is scheduled fairly.  Nothing is assumed of
\* the environment, nor of the waker: its period is not bounded by the
\* model.
SystemSpec ==
    /\ SystemInit
    /\ [][SystemNext]_vars
    /\ WF_vars(Startup)
    /\ WF_vars(Shutdown)
    /\ WF_vars(WaitEvent_run)
    /\ WF_vars(NotificationThread_run)
    /\ \A w \in Workers : WF_vars(SystemRunner(w))

\* ---------------------------------------------- the start-up scenario
\*
\* The command is started on a store that already holds Jobs.  Nothing is
\* enqueued afterwards, no NOTIFY is sent, and the waker does not tick (its
\* first sleep has not ended).

\* models.py:83-112  the Job rows in the store when handle is entered: with
\* every default, of any function path
StoredJobs ==
    UNION {[1..n -> {DefaultRow(f) : f \in FuncNames}] : n \in 1..NumJobs}

SweepInit ==
    /\ now = 0
    /\ jobs \in StoredJobs
    /\ results = <<>>
    /\ run_event = FALSE
    /\ exit_event = FALSE
    /\ pc = [w \in Workers |-> "unstarted"]
    /\ exiting = [w \in Workers |-> FALSE]
    /\ idle = [w \in Workers |-> FALSE]
    /\ cur = [w \in Workers |-> 0]
    /\ started = [w \in Workers |-> 0]
    /\ lis_pc = "unstarted"
    /\ lis_exiting = FALSE
    /\ \E a \in HandleInputs :
          sup = [pc |-> "start", i |-> 0, half |-> FALSE,
                 job_runners |-> a.job_runners,
                 rescan_period |-> a.rescan_period,
                 execute_async |-> a.execute_async, wakeup |-> FALSE]

SweepNext ==
    \/ Startup
    \/ \E w \in Workers : SystemRunner(w)
    \/ NotificationThread_closed
    \/ NotificationThread_exit
    \/ perform_exit
    \/ WaitEvent_run
    \/ Shutdown

SweepSpec ==
    /\ SweepInit
    /\ [][SweepNext]_vars
    /\ WF_vars(Startup)
    /\ WF_vars(Shutdown)
    /\ WF_vars(WaitEvent_run)
    /\ WF_vars(NotificationThread_exit)
    /\ \A w \in Workers : WF_vars(SystemRunner(w))

\* The threads are scheduled fairly: a runner that can take a step takes
\* one, and the periodic waker (rescan_period > 0) keeps firing.  Nothing is
\* assumed of the notification listener.
FairSpec ==
    /\ Spec
    /\ WF_vars(Wakeup_run)
    /\ \A w \in Workers : WF_vars(Runner(w))

\* -------------------------------------------------- the fan-out scenario

\* test_callables.py:130-147  every job is enqueued with a handler that
\* returns, the runners are started by the test itself (no waker, no
\* notification thread) and the event is set once
FanOutInit ==
    /\ now = 0
    /\ jobs = [j \in 1..NumJobs |-> DefaultRow("app.tasks.handler")]
    /\ results = <<>>
    /\ run_event = TRUE
    /\ exit_event = FALSE
    /\ pc = [w \in Workers |-> "loop"]
    /\ exiting = [w \in Workers |-> FALSE]
    /\ idle = [w \in Workers |-> FALSE]
    /\ cur = [w \in Workers |-> 0]
    /\ started = [w \in Workers |-> 0]
    /\ lis_pc = "unstarted"
    /\ lis_exiting = FALSE
    /\ sup = HandleWaiting(NumWorkers, 0, FALSE)

\* A runner whose handlers all return.  Nothing sets the event again in the
\* scenario, so no blocked runner is ever notified.
FanOutRunner(w) ==
    \/ RunLoop(w)
    \/ RunWait(w)
    \/ RunBlock(w)
    \/ RunClaim(w)
    \/ RunNoJob(w)
    \/ ExecuteSuccess(w)
    \/ RunCool(w)
    \/ RunClearEvent(w)
    \/ RunSetIdle(w)

FanOutNext ==
    \/ Tick
    \/ \E w \in Workers : FanOutRunner(w)

FanOutSpec ==
    /\ FanOutInit
    /\ [][FanOutNext]_vars
    /\ \A w \in Workers : WF_vars(FanOutRunner(w))

\* -------------------------------------------------- the outage scenario

\* A runner whose handlers return or raise, on a store that can become
\* unavailable under any of its transactions.
OutageRunner(w) ==
    \/ FanOutRunner(w)
    \/ ExecuteFailure(w)
    \/ RunClaimError(w)
    \/ ExecuteSaveError(w)

OutageNext == \E w \in Workers : OutageRunner(w)

OutageSpec == FanOutInit /\ [][OutageNext]_vars

\* ---------------------------------------------------- the echo scenario

\* The registered handlers: the callables of the importable modules.
Handlers == {ModuleAttrs[x] : x \in {y \in DOMAIN ModuleAttrs :
                                       callable(ModuleAttrs[y])}}

\* The positional and the keyword arguments of the enqueued call.
ArgTuples == UNION {[1..n -> JsonScalars] : n \in 0..MaxArgs}
KwargMaps == UNION {[K -> JsonScalars] : K \in SUBSET {"a", "c"}}

\* test_callables.py:74-75, 95-102  setUp has enqueued one call of a handler
\* with its arguments; the runners are started and the event is set
EchoInit ==
    /\ now = 0
    /\ \E f \in Handlers : \E a \in ArgTuples : \E k \in KwargMaps :
          jobs = <<EnqueuedRow(f, a, k)>>
    /\ results = <<>>
    /\ run_event = TRUE
    /\ exit_event = FALSE
    /\ pc = [w \in Workers |-> "loop"]
    /\ exiting = [w \in Workers |-> FALSE]
    /\ idle = [w \in Workers |-> FALSE]
    /\ cur = [w \in Workers |-> 0]
    /\ started = [w \in Workers |-> 0]
    /\ lis_pc = "unstarted"
    /\ lis_exiting = FALSE
    /\ sup = HandleWaiting(NumWorkers, 0, FALSE)

\* test_callables.py:78, 98-108  the job is executed, by runners whose
\* handlers return
EchoNext == \E w \in Workers : FanOutRunner(w)

EchoSpec == EchoInit /\ [][EchoNext]_vars

\* ------------------------------------------------ the priority scenario

\* The priorities of the scenario: two that sort before the default.
PriorityValues == {10, 500, DefaultPriority}

\* models.py:83-112  three Job rows, each with a priority of its own choice
\* and no delay, are in the store when the runners start
PriorityInit ==
    /\ now = 0
    /\ \E p \in [1..3 -> PriorityValues] :
          jobs = [j \in 1..3 |-> JobRow("app.tasks.handler", p[j], NULL, 0)]
    /\ results = <<>>
    /\ run_event = TRUE
    /\ exit_event = FALSE
    /\ pc = [w \in Workers |-> "loop"]
    /\ exiting = [w \in Workers |-> FALSE]
    /\ idle = [w \in Workers |-> FALSE]
    /\ cur = [w \in Workers |-> 0]
    /\ started = [w \in Workers |-> 0]
    /\ lis_pc = "unstarted"
    /\ lis_exiting = FALSE
    /\ sup = HandleWaiting(NumWorkers, 1, FALSE)

\* A runner whose handlers return or raise.
PriorityRunner(w) ==
    \/ RunLoop(w)
    \/ RunWait(w)
    \/ RunBlock(w)
    \/ RunWoken(w)
    \/ RunClaim(w)
    \/ RunNoJob(w)
    \/ ExecuteSuccess(w)
    \/ ExecuteFailure(w)
    \/ RunCool(w)
    \/ RunClearEvent(w)
    \/ RunSetIdle(w)

PriorityNext ==
    \/ \E w \in Workers : PriorityRunner(w)
    \/ Wakeup_run

PrioritySpec == PriorityInit /\ [][PriorityNext]_vars

\* ------------------------------------------------------------- claims

\* The position of row i among the rows of its job.
Rank(i) == Cardinality({k \in ResultsOf(results[i].job) : k <= i})

Callable(j) == get_callable(j).raised = "None"

AllFailed(j) == \A i \in ResultsOf(j) : ~results[i].success

DelaysPassed(j) ==
    /\ (jobs[j].delay_until = NULL \/ jobs[j].delay_until <= now)
    /\ (jobs[j].error_delay_until = NULL \/ jobs[j].error_delay_until <= now)

\* C1: a Job is held (claimed, inside an open claim transaction) by at most
\* one worker at any instant, so the [started_at, finished_at] intervals of
\* two JobResult rows of one Job do not overlap: the later row starts no
\* earlier than the earlier one finished, and so does an attempt in flight.
C1_AtMostOneHolder ==
    /\ \A w1, w2 \in Workers :
          (w1 # w2 /\ pc[w1] = "execute" /\ pc[w2] = "execute")
              => cur[w1] # cur[w2]
    /\ \A i, k \in 1..Len(results) :
          (i < k /\ results[i].job = results[k].job)
              => results[i].finished_at <= results[k].started_at
    /\ \A w \in Workers :
          pc[w] = "execute"
              => \A i \in ResultsOf(cur[w]) : results[i].finished_at <= started[w]

\* Every worker holds a Job while some Job already has two rows.
C1_Witness ==
    /\ \A w \in Workers : pc[w] = "execute"
    /\ \E j \in JobIds : results_count(j) >= 2

\* C2: in every reachable state every Job has at most max_retries + 1
\* JobResult rows.
C2_AttemptsBounded ==
    \A j \in JobIds : results_count(j) <= jobs[j].max_retries + 1

\* A Job with the largest retry count has used every attempt.
C2_Witness ==
    \E j \in JobIds :
        /\ jobs[j].max_retries = MaxRetries
        /\ results_count(j) = MaxRetries + 1

\* C3: once a Job has a final result no step claims it and no step adds a
\* JobResult row for it.
C3_FinalIsTerminal ==
    [][\A j \in JobIds :
          final_result(j) # NULL
              => /\ ResultsOf(j)' = ResultsOf(j)
                 /\ \A w \in Workers : cur'[w] = j => cur[w] = j]_vars

\* A Job with a final result that only the final result keeps from being
\* claimed, some time after it finished, and a worker whose claim came back
\* empty.
C3_Witness ==
    \E j \in JobIds :
        /\ final_result(j) # NULL
        /\ ~jobs[j].canceled
        /\ DelaysPassed(j)
        /\ results[final_result(j)].finished_at < now
        /\ \E w \in Workers : pc[w] = "cool"

\* C4: a Job with max_retries = k whose handler failed on every invocation
\* has at most k + 1 rows; the first k are not final and the (k+1)-th is the
\* final result, after which no worker holds the Job.
C4_FailingHandlerRows ==
    \A j \in JobIds :
        (Callable(j) /\ AllFailed(j))
            => /\ results_count(j) <= jobs[j].max_retries + 1
               /\ \A i \in ResultsOf(j) :
                     results[i].permanent <=> Rank(i) = jobs[j].max_retries + 1
               /\ final_result(j) # NULL
                     => \A w \in Workers : cur[w] # j

\* A Job with the largest retry count and one with none have both failed
\* to the end.
C4_Witness ==
    /\ \E j \in JobIds :
          /\ Callable(j) /\ AllFailed(j)
          /\ jobs[j].max_retries = MaxRetries
          /\ results_count(j) = MaxRetries + 1
          /\ final_result(j) # NULL
    /\ \E j \in JobIds :
          /\ Callable(j) /\ AllFailed(j)
          /\ jobs[j].max_retries = 0
          /\ results_count(j) = 1
          /\ final_result(j) # NULL

\* C5: the attempt on a Job whose func_name does not resolve to a callable
\* ends with exactly one JobResult row, failing and final, no retry
\* scheduled, and the worker back in its claim loop.
C5_UnresolvedRecorded ==
    [][\A w \in Workers : \A j \in JobIds :
          (pc[w] = "execute" /\ cur[w] = j /\ ~Callable(j)
             /\ pc'[w] # "execute")
              => /\ pc'[w] = "drain"
                 /\ results_count(j)' = 1
                 /\ final_result(j)' # NULL
                 /\ ~results'[Len(results')].success
                 /\ jobs'[j].error_delay_until = NULL]_vars

\* C6: a successful JobResult row is permanent and is the final result of
\* its Job, whose finished flag is set.
C6_SuccessIsFinal ==
    \A i \in 1..Len(results) :
        results[i].success
            => /\ results[i].permanent
               /\ final_result(results[i].job) = i
               /\ jobs[results[i].job].finished

\* A handler succeeded on a retry.
C6_Witness ==
    \E i \in 1..Len(results) : results[i].success /\ Rank(i) >= 2

\* C7:with NumJobs eligible jobs whose handlers return and NumWorkers
\* runners woken by the run event, no job ever has more than one JobResult
\* row, every row is successful and final, and in the end every job has
\* exactly one row, whatever the interleaving.
C7_ExactlyOnce ==
    /\ [](\A j \in JobIds :
            /\ results_count(j) <= 1
            /\ \A i \in ResultsOf(j) : results[i].success /\ results[i].permanent)
    /\ <>[](\A j \in JobIds : results_count(j) = 1)

\* Every job has its one row, two of the rows come from attempts that
\* overlapped in time, and every runner is back waiting on the cleared event.
C7_Witness ==
    /\ \A j \in JobIds : results_count(j) = 1
    /\ Len(results) = NumJobs
    /\ \E i, k \in 1..Len(results) :
          /\ i # k
          /\ results[i].started_at < results[k].finished_at
          /\ results[k].started_at < results[i].finished_at
    /\ \A w \in Workers : pc[w] = "wait"
    /\ ~run_event

\* C8: with the periodic waker and fair scheduling, and no help from the
\* notification listener, the system comes to rest with no Job left
\* eligible: from some point on every Job is terminal, canceled, or waits
\* for a delay_until / error_delay_until still in the future.
C8_EligibleEventuallyRun ==
    <>[](\A j \in JobIds : ~Available(j, now))

\* C9: a Job is not claimed before its delay_until or its error_delay_until:
\* neither instant is later than the time of the claim, for an attempt in
\* flight and for every row written.
C9_NotBeforeDelay ==
    /\ \A w \in Workers :
          pc[w] = "execute"
              => LET job == jobs[cur[w]]
                 IN /\ (job.delay_until = NULL \/ job.delay_until <= started[w])
                    /\ \/ job.error_delay_until = NULL
                       \/ job.error_delay_until <= started[w]
    /\ \A i \in 1..Len(results) :
          LET job == jobs[results[i].job]
          IN job.delay_until = NULL \/ job.delay_until <= results[i].started_at

\* A delayed Job is in flight, claimed at the very instant of its delay.
C9_Witness ==
    \E j \in JobIds :
        /\ jobs[j].delay_until # NULL
        /\ jobs[j].delay_until > 0
        /\ \E w \in Workers :
              pc[w] = "execute" /\ cur[w] = j
                 /\ started[w] = jobs[j].delay_until

\* C10: a canceled Job is never claimed and gets no JobResult row: no step
\* claims it and no step adds a row for it.
C10_CanceledNeverRuns ==
    [][\A j \in JobIds :
          jobs[j].canceled
              => /\ ResultsOf(j)' = ResultsOf(j)
                 /\ \A w \in Workers : cur'[w] = j => cur[w] = j]_vars

\* A Job canceled before any attempt, otherwise claimable, and a worker
\* whose claim came back empty.
C10_Witness ==
    \E j \in JobIds :
        /\ jobs[j].canceled
        /\ results_count(j) = 0
        /\ DelaysPassed(j)
        /\ \E w \in Workers : pc[w] = "cool"

\* A row the claim query can return at this instant.
Claimable(j) == Available(j, now) /\ ~Locked(j)

\* C11: a claim returns a Job that is eligible and unlocked and whose
\* priority value is the least among the eligible unlocked Jobs, and it
\* returns nothing only when there is none; so while a single runner has
\* been working, the Jobs were executed in the order of their priorities
\* (B, C, A for A = 1000, B = 10, C = 500).
C11_PriorityOrder ==
    /\ [][\A w \in Workers :
            /\ (pc[w] = "drain" /\ pc'[w] = "execute")
                  => \A j \in JobIds :
                        cur'[w] = j
                            => /\ Claimable(j)
                               /\ \A k \in JobIds :
                                     Claimable(k)
                                         => jobs[j].priority <= jobs[k].priority
            /\ (pc[w] = "drain" /\ pc'[w] = "cool" /\ ~exiting[w])
                  => \A k \in JobIds : ~Claimable(k)]_vars
    /\ []((\A w \in Workers \ {1} : pc[w] = "loop")
            => /\ \A i, k \in 1..Len(results) :
                     i < k => jobs[results[i].job].priority
                                <= jobs[results[k].job].priority
               /\ pc[1] = "execute"
                     => \A i \in 1..Len(results) :
                           jobs[results[i].job].priority
                               <= jobs[cur[1]].priority)

\* A (1000), B (10) and C (500) were executed by a single runner, in the
\* order B, C, A.
C11_Witness ==
    /\ Len(jobs) = 3
    /\ jobs[1].priority = DefaultPriority
    /\ jobs[2].priority = 10
    /\ jobs[3].priority = 500
    /\ \A w \in Workers \ {1} : pc[w] = "loop"
    /\ Len(results) = 3
    /\ results[1].job = 2
    /\ results[2].job = 3
    /\ results[3].job = 1

\* C12: when the attempt of a runner aborts after the claim and before the
\* commit, the step leaves the Job table and the JobResult table as they
\* were, the row lock is released, and the Job is again one the claim query
\* can return to another runner.
C12_AbortLeavesNothing ==
    [][\A w \in Workers : \A j \in JobIds :
          (pc[w] = "execute" /\ cur[w] = j /\ pc'[w] = "crashed")
              => /\ jobs' = jobs
                 /\ results' = results
                 /\ ~Locked(j)'
                 /\ Claimable(j)']_vars

\* A runner has died on a Job, nothing was recorded, and another runner
\* holds the same Job.
C12_Witness ==
    \E w1, w2 \in Workers : \E j \in JobIds :
        /\ pc[w1] = "crashed"
        /\ pc[w2] = "execute"
        /\ cur[w2] = j
        /\ ~Callable(j)
        /\ \A k \in JobIds : ~Callable(k) => k = j
        /\ results_count(j) = 0

\* A thread of the command that is not running: never started, or ended.
Terminated(p) == p \in {"unstarted", "done", "crashed"}

\* C13: when handle returns, the notification thread and every runner have
\* terminated; in particular no runner is inside a transaction (an in-flight
\* handler has completed and committed before the return).
C13_ReturnsAfterAllTerminated ==
    sup.pc = "returned"
        => /\ Terminated(lis_pc)
           /\ \A w \in Workers : Terminated(pc[w])
           /\ \A w \in Workers : pc[w] # "execute"

\* C20: once stop() has been called on every runner (handle is past its
\* stop loop), every runner eventually terminates.  The specification puts
\* no fairness on the waker and none on NOTIFY, so no later set() of the
\* event is relied on.
C20_StoppedRunnersTerminate ==
    [](sup.pc \in {"join", "returned"}
          => <>(\A w \in Workers : Terminated(pc[w])))

\* A background thread the command started has ended.
ThreadEnded ==
    \/ lis_pc = "done"
    \/ \E w \in Workers : pc[w] \in {"done", "crashed"}

\* handle is past exit_event.wait(): the stop commands are being fired, or
\* have been.
ShutdownStarted == sup.pc \in {"stop", "join", "returned"}

\* C14: whenever a background thread of the command has ended (a runner
\* that died on an exception, the notification thread whose connection
\* closed), the exit event is eventually set and the supervisor starts its
\* shutdown.
C14_ThreadEndStartsShutdown ==
    ThreadEnded ~> (exit_event /\ ShutdownStarted)

\* The connection of the notification thread closed while nothing had asked
\* it to stop, a runner died, and the command has shut down.
C14_Witness ==
    /\ lis_pc = "done"
    /\ \E w \in Workers : pc[w] = "crashed"
    /\ exit_event
    /\ sup.pc = "returned"

\* The configurations the command must refuse: no runner, or neither
\* notifications nor a rescan period.
InvalidConfig ==
    \/ sup.job_runners < 1
    \/ ~sup.execute_async /\ sup.rescan_period = 0

\* The runners that have been started.
StartedRunners == {w \in Workers : pc[w] # "unstarted"}

\* C15: with an invalid configuration the command never gets past its
\* checks, starts no thread (no runner, no notification thread, no waker) and
\* ends in the configuration error; it ends in that error for no other
\* configuration; and once it waits for the exit event exactly job_runners
\* runners have been started.
C15_ConfigChecked ==
    /\ [](InvalidConfig
            => /\ sup.pc \in {"start", "events", "check_notify", "error"}
               /\ StartedRunners = {}
               /\ lis_pc = "unstarted"
               /\ ~sup.wakeup)
    /\ [](sup.pc = "error" => InvalidConfig)
    /\ [](sup.pc \in {"wait", "stop", "join", "returned"}
            => Cardinality(StartedRunners) = sup.job_runners)
    /\ (InvalidConfig ~> sup.pc = "error")

\* The command has refused a configuration with a runner, no notifications
\* and no rescan period, with no thread started.
C15_Witness ==
    /\ sup.pc = "error"
    /\ sup.job_runners >= 1
    /\ ~sup.execute_async
    /\ sup.rescan_period = 0
    /\ StartedRunners = {}
    /\ lis_pc = "unstarted"
    /\ ~sup.wakeup

\* C16: every successful simple_enqueue_job is followed by a notification
\* on the channel: while the notification thread is running and waits in
\* select, the step that inserts the row leaves its connection readable (so
\* that the thread sets run_event next).
C16_EnqueueNotifies ==
    [][((\E f \in Objects : simple_enqueue_job(f, <<>>, <<>>))
            /\ lis_pc = "select" /\ ~lis_exiting)
          => lis_pc' = "readable"]_vars

\* The last JobResult row of job j.
LastResult(j) == CHOOSE i \in ResultsOf(j) : \A k \in ResultsOf(j) : k <= i

\* C17: get_result raises Unfinished for a Job without a final result,
\* returns the stored value of the final result when that is a success,
\* raises PermanentFailure with the exception text of the final result when
\* that is a failure, the final failing row being the Job's last row (so for
\* a Job whose max_retries + 1 attempts all failed, the text of the last
\* attempt); and it raises nothing else.
C17_GetResult ==
    \A j \in JobIds :
        LET got == get_result(j)
        IN /\ PermanentOf(j) = {} => got.raised = "Unfinished"
           /\ \A i \in PermanentOf(j) :
                 /\ results[i].success
                       => got = [raised |-> "None", msg |-> "",
                                 value |-> results[i].result]
                 /\ ~results[i].success
                       => /\ got.raised = "PermanentFailure"
                          /\ got.msg = results[i].exception
                          /\ i = LastResult(j)
           /\ (AllFailed(j) /\ results_count(j) = jobs[j].max_retries + 1)
                 => /\ got.raised = "PermanentFailure"
                    /\ got.msg = results[LastResult(j)].exception
           /\ got.raised \in {"None", "Unfinished", "PermanentFailure"}

\* A Job with max_retries = 2 has three rows and get_result raises
\* PermanentFailure("boom"); get_result of another Job returns the value of
\* its handler.
C17_Witness ==
    \E j, k \in JobIds :
        /\ jobs[j].max_retries = 2
        /\ results_count(j) = 3
        /\ get_result(j).raised = "PermanentFailure"
        /\ get_result(j).msg = "boom"
        /\ results_count(k) = 1
        /\ get_result(k) = [raised |-> "None", msg |-> "", value |-> JsonNull]

\* Job j is what simple_enqueue_job(f, *a, **k) wrote: its path and its
\* argument rows (the other columns change as the Job is executed).
EnqueuedAs(j, f, a, k) ==
    /\ jobs[j].func_name = EnqueuedRow(f, a, k).func_name
    /\ jobs[j].args = EnqueuedRow(f, a, k).args
    /\ jobs[j].kwargs = EnqueuedRow(f, a, k).kwargs

\* The value test_func returns for the inputs, as read back from the store.
Echo(a, k) ==
    [t |-> "dict",
     v |-> ("args" :> [t |-> "list", v |-> a])
           @@ ("kwargs" :> [t |-> "dict", v |-> k])]

\* C18: for a Job enqueued as test_func(a_0, .., a_n, **k): once it has been
\* executed get_result returns {args: [a_0, .., a_n], kwargs: k}, and it has
\* been executed once the runner that alone has run signals idle.
C18_EchoRoundTrip ==
    \A a \in ArgTuples : \A k \in KwargMaps :
        EnqueuedAs(1, test_func, a, k)
            => /\ results_count(1) > 0
                    => get_result(1) = [raised |-> "None", msg |-> "",
                                        value |-> Echo(a, k)]
               /\ \A w \in Workers :
                    (idle[w] /\ \A u \in Workers \ {w} : pc[u] = "loop")
                        => get_result(1).raised = "None"

\* test_func(1, "1", a = "1", c = None) has been executed and the runner has
\* signalled idle.
C18_Witness ==
    /\ EnqueuedAs(1, test_func,
                  <<[t |-> "int", v |-> "1"], [t |-> "str", v |-> "1"]>>,
                  ("a" :> [t |-> "str", v |-> "1"]) @@ ("c" :> JsonNull))
    /\ \E w \in Workers : idle[w]
    /\ get_result(1).raised = "None"

\* C19: for every registered handler f, path_to_function(function_to_path(f))
\* returns f; and the func_name of a Job enqueued with f resolves to f.
C19_PathRoundTrip ==
    /\ \A f \in Handlers :
          path_to_function(function_to_path(f)) = [raised |-> "None", value |-> f]
    /\ \A f \in Handlers :
          jobs[1].func_name = EnqueuedRow(f, <<>>, <<>>).func_name
              => get_callable(1) = [raised |-> "None", value |-> f]

\* A Job enqueued with the function test_func carries its dotted path, and
\* a runner has resolved the path and called the function.
C19_Witness ==
    /\ jobs[1].func_name = "dbqueue.test_callables.test_func"
    /\ get_callable(1).value = test_func
    /\ results_count(1) = 1
    /\ results[1].success

\* A runner that will run the claim query again without a further set() of
\* the event: it is in its drain loop, inside an attempt of it, or released
\* from wait().
WillClaim(w) == pc[w] \in {"woken", "drain", "execute"} /\ ~exiting[w]

\* C21: a runner's clear of run_event loses no wake-up.  A state in which
\* the event is set and a Job is claimable is what a set() after the Job
\* became eligible leaves (a set() of a set event changes nothing); when a
\* runner clears the event in such a state, some runner is still to run the
\* claim query without any further set().
C21_ClearLosesNoWakeup ==
    [][\A w \in Workers :
          (pc[w] = "clear" /\ pc'[w] = "set_idle" /\ run_event)
              => \A j \in JobIds :
                    Claimable(j) => \E u \in Workers : WillClaim(u)]_vars

\* Runner w commits a failed attempt on Job j that is not final: the row it
\* appends is neither successful nor permanent.
FailsNotFinal(w, j) ==
    /\ pc[w] = "execute"
    /\ cur[w] = j
    /\ Len(results') = Len(results) + 1
    /\ ~results'[Len(results')].success
    /\ ~results'[Len(results')].permanent

\* C22: the step that commits a failed attempt that is not final leaves the
\* Job's error_delay_until strictly later than the instant of the commit, so
\* the claim query that follows at once, in this runner or in another, does
\* not return the Job; for the first failure as for the later ones.
C22_FailedNotReclaimedAtOnce ==
    [][\A w \in Workers : \A j \in JobIds :
          FailsNotFinal(w, j)
              => /\ jobs'[j].error_delay_until # NULL
                 /\ jobs'[j].error_delay_until > now'
                 /\ ~Claimable(j)']_vars

\* Runner w commits a failed attempt on Job j: the row it appends is not
\* successful and is a row of a handler that raised.
HandlerFails(w, j) ==
    /\ pc[w] = "execute"
    /\ cur[w] = j
    /\ Callable(j)
    /\ Len(results') = Len(results) + 1
    /\ ~results'[Len(results')].success

\* C23: the step that commits the n-th failed attempt of a Job, n counting
\* the JobResult rows with the one just written and n <= max_retries, sets
\* error_delay_until to now + retry_delay ^ n; with retry_delay = 1 that is
\* one second after the first failure and one second after the second.
C23_BackOff ==
    [][\A w \in Workers : \A j \in JobIds :
          LET n == results_count(j)'
          IN (HandlerFails(w, j) /\ n <= jobs[j].max_retries)
                => jobs'[j].error_delay_until = now' + base_retry_delay ^ n]_vars

C25_StoreFailureIsNoJob ==
    [][\A w \in Workers :
          (RunClaimError(w) \/ ExecuteSaveError(w))
              => /\ jobs' = jobs
                 /\ results' = results
                 /\ cur'[w] = 0
                 /\ \A j \in JobIds : cur[w] = j => ~Locked(j)'
                 /\ pc'[w] = "cool"]_vars

\* C26: with the runners started idle-clear on Jobs whose handlers return,
\* the event set once: whenever every runner's idle is set every Job has a
\* final result; idle is never set on a runner that holds a claimed Job; a
\* runner sets idle only at the end of a pass, holding nothing; and it
\* leaves its drain loop for that only from a claim that came back empty,
\* or on exiting.
C26_IdleMeansDrained ==
    /\ []((\A w \in Workers : idle[w])
            => \A j \in JobIds : final_result(j) # NULL)
    /\ [](\A w \in Workers : idle[w] => (cur[w] = 0 /\ pc[w] # "execute"))
    /\ [][\A w \in Workers :
            /\ (~idle[w] /\ idle'[w]) => (pc[w] = "set_idle" /\ cur[w] = 0)
            /\ (pc[w] # "cool" /\ pc'[w] = "cool")
                  => (pc[w] = "drain" /\ (get_job = {} \/ exiting[w]))]_vars

\* Every runner has signalled idle, every Job has its final result, and the
\* Jobs were executed in attempts that overlapped in time.
C26_Witness ==
    /\ \A w \in Workers : idle[w]
    /\ Len(jobs) = NumJobs
    /\ \A j \in JobIds : final_result(j) # NULL
    /\ \E i, k \in 1..Len(results) :
          /\ i # k
          /\ results[i].started_at < results[k].finished_at
          /\ results[k].started_at < results[i].finished_at

\* Runner w calls run_event.clear() in the step.
Clears(w) == pc[w] = "clear" /\ pc'[w] = "set_idle"

\* C27: run_event goes from set to clear only in a runner's clear(); a
\* runner calls clear() only with its exiting flag unset; it comes to the
\* clear() only from the test that follows its drain loop, never when that
\* loop ended on the exiting flag; and it leaves the drain loop with the
\* flag unset only on its own claim having come back empty.
C27_OnlyDrainedRunnerClears ==
    [][/\ (run_event /\ ~run_event') => \E w \in Workers : Clears(w)
       /\ \A w \in Workers :
            /\ Clears(w) => ~exiting[w]
            /\ (pc[w] # "clear" /\ pc'[w] = "clear")
                  => (pc[w] = "cool" /\ ~exiting[w])
            /\ (pc[w] = "cool" /\ exiting[w]) => pc'[w] # "clear"
            /\ (pc[w] # "cool" /\ pc'[w] = "cool" /\ ~exiting[w])
                  => (pc[w] = "drain" /\ get_job = {})]_vars

====
